---- MODULE Spec2Model ----
(***************************************************************************)
(* Model of the test-time prompt tuning loop of tpt_eval.py                *)
(* (tpt_train_loop, tta_net_train, main) and of the AverageMeter of        *)
(* utils.py.                                                               *)
(*                                                                         *)
(* One behaviour is a sequence of at most MaxRuns executions of main() on  *)
(* the same run directory: each execution loads the latest checkpoint file *)
(* (if any), builds the data loader, the network, the optimizer and the    *)
(* scaler, and calls tpt_train_loop.  A KeyboardInterrupt may be delivered  *)
(* between any two statements of the try block of tpt_train_loop.          *)
(*                                                                         *)
(* Abstractions:                                                           *)
(*  - the prompt parameters and the optimizer's internal state are         *)
(*    represented by the number of optimizer steps they have absorbed      *)
(*    since their snapshot value (0 = equal to the snapshot);              *)
(*  - what the network predicts for sample i is read from the table        *)
(*    `outcome`, fixed for the whole behaviour, so that two executions see *)
(*    the same per-sample outcomes;                                        *)
(*  - losses are small naturals, get_avg is computed in integers.          *)
(***************************************************************************)
EXTENDS Integers, Sequences, FiniteSets, TLC

\* ---------------------------------------------------------------- bounds
MaxSamples == 3      \* largest length of the test stream
MaxRuns == 2         \* executions of main() on the same run directory
NumClasses == 2      \* number of classes of id2classes
MaxViews == 3        \* largest number of views of one batch
MaxEntropy == 2      \* entropies of the views are drawn from 0 .. MaxEntropy
MaxVal == 2          \* values given to a stand-alone meter are 0 .. MaxVal
MaxWeight == 2       \* weights n given to a stand-alone meter are 1 .. MaxWeight
MaxObs == 3          \* updates of a stand-alone meter between two resets

\* LOG_FREQUENCY (tpt_eval.py:36) is 100 in the source; the model scales it
\* to 2 so that streams of MaxSamples samples have periodic and non-periodic
\* indices.  Nothing in the loop depends on the value beyond `% LOG_FREQUENCY`.
LOG_FREQUENCY == 2

Classes == 0 .. (NumClasses - 1)
Indices == 0 .. (MaxSamples - 1)

\* ------------------------------------------------------- AverageMeter
\* AverageMeter.__init__ / reset
AverageMeter == [val |-> 0, sum |-> 0, count |-> 0]

\* AverageMeter.reset
reset(m) == [val |-> 0, sum |-> 0, count |-> 0]

update_nocount(m, v, n) == [val |-> v, sum |-> m.sum + v * n, count |-> m.count]

\* AverageMeter.update(val, n=1)
update(m, v, n) == [val |-> v, sum |-> m.sum + v * n, count |-> m.count + n]

get_avg_ratio(m) == IF m.count = 0 THEN -1 ELSE m.sum \div m.count

\* AverageMeter.get_avg: -1 when empty, else sum / count * 100 (integer part)
get_avg(m) == IF m.count = 0 THEN -1 ELSE (m.sum * 100) \div m.count

\* ------------------------------------------------ per-sample outcomes
\* What the loop observes of one sample: its label (targets), whether the
\* averaged prediction of tta_net_train matches it (no_tpt_prediction ==
\* targets), whether the adapted argmax matches it (prediction == targets),
\* whether it is among outputs.topk(5), and cost_function's value.
\* The argmax is the first of the top-5, so top1 implies top5.
Outcomes ==
  { [label |-> 0, no_tpt |-> TRUE,  top1 |-> TRUE,  top5 |-> TRUE,  loss |-> 1],
    [label |-> 1, no_tpt |-> FALSE, top1 |-> FALSE, top5 |-> TRUE,  loss |-> 2],
    [label |-> 1, no_tpt |-> TRUE,  top1 |-> FALSE, top5 |-> FALSE, loss |-> 3] }

DefaultOutcome == [label |-> 0, no_tpt |-> TRUE, top1 |-> TRUE, top5 |-> TRUE, loss |-> 1]

\* The three outcomes in a fixed order.
OutcomeSeq ==
  << [label |-> 0, no_tpt |-> TRUE,  top1 |-> TRUE,  top5 |-> TRUE,  loss |-> 1],
     [label |-> 1, no_tpt |-> FALSE, top1 |-> FALSE, top5 |-> TRUE,  loss |-> 2],
     [label |-> 1, no_tpt |-> TRUE,  top1 |-> FALSE, top5 |-> FALSE, loss |-> 3] >>

\* The datasets of n samples that are examined: the three outcomes in
\* rotation, starting from each of them.
OutcomeTables(n) ==
  { [i \in 0 .. (MaxSamples - 1) |->
       IF i < n THEN OutcomeSeq[((i + shift) % Len(OutcomeSeq)) + 1]
       ELSE DefaultOutcome] : shift \in 0 .. (Len(OutcomeSeq) - 1) }

VARIABLES
  \* environment
  outcome,          \* [Indices -> Outcomes]: the dataset and the model's answers
  stream_len,       \* number of samples of the dataset
  use_scaler,       \* main: device == 'cuda' (scaler is a GradScaler, else None)
  disk,             \* runs/RUN_NAME/checkpoint%i.pkl: index -> dumped tuple
  run,              \* number of the current execution of main()
  \* main
  checkpoint,       \* what main loaded: [present, idx, stats]
  from_idx,
  loader_len,       \* len(data_loader)
  \* net, optimizer, scaler
  init_prompt,      \* the prompt learner's own initial snapshot
  prompt,           \* prompt parameters
  training,         \* nn.Module.training
  optimizer,        \* optimizer.state_dict()
  scaler,           \* GradScaler state: [backoffs, growth_tracker]
  found_inf,        \* scaler path: the scaled gradients held an inf/NaN
  \* tpt_train_loop locals
  pc,
  offset,
  cumulative_loss, top1, top5, no_tpt_class_acc, tpt_class_acc,
  optimizer_state,
  enum_idx,         \* position of enumerate(data_loader)
  batch_idx, batch_idx_bound,
  entropy_diff_bound,
  interrupted,      \* the except KeyboardInterrupt clause ran
  ret,              \* the returned pair
  \* history
  opt_steps,        \* optimizer steps applied since the last RESET_STATE
  phases,           \* phases of the current iteration, in order
  iter_start,       \* the statistics when the iteration began
  iter_stepped,     \* the iteration went through its optimizer-step statement
  last_done,        \* [some, idx, stats]: last iteration that ran to its end
  int_pc,           \* where the interrupt struck
  written,          \* [periodic, flush]: indices whose checkpoint this run wrote
  \* single calls, used by the specifications of the pure functions
  flt,              \* one call of filter_on_entropy: arguments and result
  mtr,              \* one AverageMeter and the observations it was given
  twin              \* one sample run twice, with two labels

env_vars == <<outcome, stream_len, use_scaler, disk, run>>
main_vars == <<checkpoint, from_idx, loader_len>>
net_vars == <<init_prompt, prompt, training, optimizer, scaler, found_inf>>
meter_vars == <<cumulative_loss, top1, top5, no_tpt_class_acc, tpt_class_acc>>
loop_vars == <<pc, offset, optimizer_state, enum_idx, batch_idx, batch_idx_bound,
               entropy_diff_bound, interrupted, ret>>
hist_vars == <<opt_steps, phases, iter_start, iter_stepped, last_done, int_pc,
               written>>
pure_vars == <<flt, mtr, twin>>
vars == <<env_vars, main_vars, net_vars, meter_vars, loop_vars, hist_vars, pure_vars>>

\* The tuple dumped to / loaded from a checkpoint file, without its index.
Stats == [cumulative_loss |-> cumulative_loss, top1 |-> top1, top5 |-> top5,
          no_tpt_class_acc |-> no_tpt_class_acc, tpt_class_acc |-> tpt_class_acc]

EmptyStats == [cumulative_loss |-> AverageMeter, top1 |-> AverageMeter,
               top5 |-> AverageMeter,
               no_tpt_class_acc |-> [c \in Classes |-> AverageMeter],
               tpt_class_acc |-> [c \in Classes |-> AverageMeter]]

RECURSIVE SumCounts(_, _)
SumCounts(table, S) ==
  IF S = {} THEN 0
  ELSE LET c == CHOOSE x \in S : TRUE
       IN table[c].count + SumCounts(table, S \ {c})

\* The five observation counts of a statistics tuple.
CountsOf(st) == [cumulative_loss |-> st.cumulative_loss.count,
                 top1 |-> st.top1.count,
                 top5 |-> st.top5.count,
                 no_tpt |-> SumCounts(st.no_tpt_class_acc, Classes),
                 tpt |-> SumCounts(st.tpt_class_acc, Classes)]

NoCheckpoint == [present |-> FALSE, idx |-> 0, stats |-> EmptyStats]
NoneDone == [some |-> FALSE, idx |-> 0, stats |-> EmptyStats]

Max(S) == CHOOSE x \in S : \A y \in S : y <= x

\* ------------------------------------------------------- collaborators
\* get_data(..., from_idx=from_idx): the test loader yields the samples of
\* the dataset from index from_idx on, so len(data_loader) is what is left.
get_data_len(n, from) == IF n > from THEN n - from ELSE 0

\* net.reset(): the prompt learner goes back to its own initial snapshot.
net_reset(p, snapshot) == snapshot

load_state_dict_noop(current, saved) == current

\* optimizer.load_state_dict(optimizer_state)
load_state_dict(current, saved) == saved

optimizer_step_twice(x) == x + 2

\* optimizer.step(): one more step absorbed by the parameters and by the
\* optimizer's buffers.
optimizer_step(x) == x + 1

\* torch.cuda.amp.GradScaler(init_scale=1000)
GradScaler == [backoffs |-> 0, growth_tracker |-> 0]

\* scaler.update(): the scale backs off after a step with inf/NaN gradients,
\* otherwise the growth tracker advances (the growth interval of 2000 steps is
\* never reached by the streams of the model).
scaler_update(s, inf) ==
  IF inf THEN [backoffs |-> s.backoffs + 1, growth_tracker |-> 0]
  ELSE [backoffs |-> s.backoffs, growth_tracker |-> s.growth_tracker + 1]

\* pickle.dump(dump_object, open(".../checkpoint%{batch_idx}.pkl", "wb"))
dump(d, idx, stats) ==
  [i \in (DOMAIN d) \cup {idx} |-> IF i = idx THEN stats ELSE d[i]]

\* ------------------------------------------------------------ initial
LoopInit ==
  /\ stream_len \in 0 .. MaxSamples
  /\ outcome \in OutcomeTables(stream_len)
  /\ outcome \in [Indices -> Outcomes]
  /\ \A i \in Indices : i >= stream_len => outcome[i] = DefaultOutcome
  /\ use_scaler \in BOOLEAN
  /\ disk = [i \in {} |-> EmptyStats]
  /\ run = 0
  /\ checkpoint = NoCheckpoint
  /\ from_idx = 0
  /\ loader_len = 0
  /\ init_prompt = 0
  /\ prompt = 0
  /\ training = TRUE
  /\ optimizer = 0
  /\ scaler = GradScaler
  /\ found_inf = FALSE
  /\ pc = "start"
  /\ offset = 0
  /\ cumulative_loss = AverageMeter
  /\ top1 = AverageMeter
  /\ top5 = AverageMeter
  /\ no_tpt_class_acc = [c \in Classes |-> AverageMeter]
  /\ tpt_class_acc = [c \in Classes |-> AverageMeter]
  /\ optimizer_state = 0
  /\ enum_idx = 0
  /\ batch_idx = 0
  /\ batch_idx_bound = FALSE
  /\ entropy_diff_bound = FALSE
  /\ interrupted = FALSE
  /\ ret = <<0, 0>>
  /\ opt_steps = 0
  /\ phases = <<>>
  /\ iter_start = EmptyStats
  /\ iter_stepped = FALSE
  /\ last_done = NoneDone
  /\ int_pc = "none"
  /\ written = [periodic |-> {}, flush |-> {}]

\* No call of filter_on_entropy under way.
FilterIdle == [pc |-> "idle"]

\* No stand-alone meter.
MeterIdle == [pc |-> "idle"]

\* No twin run.
TwinIdle == [pc |-> "idle"]

\* The state before main() runs.
Init ==
  /\ LoopInit
  /\ flt = FilterIdle
  /\ mtr = MeterIdle
  /\ twin = TwinIdle

\* The loop's variables while a pure function is examined on its own.
LoopIdle ==
  /\ LoopInit
  /\ stream_len = 0
  /\ use_scaler = FALSE

\* ------------------------------------------------------------- main()
\* main, up to the call of tpt_train_loop: load the checkpoint file with the
\* largest index, build the loader from from_idx, a fresh network (training
\* mode, prompt at its initial value), optimizer and scaler.
Main ==
  /\ pc \in {"start", "returned", "crashed"}
  /\ run < MaxRuns
  /\ run' = run + 1
  /\ LET found == DOMAIN disk # {}
         latest == IF found THEN Max(DOMAIN disk) ELSE 0
     IN /\ checkpoint' = IF found
                         THEN [present |-> TRUE, idx |-> latest, stats |-> disk[latest]]
                         ELSE NoCheckpoint
        /\ from_idx' = latest
        /\ loader_len' = get_data_len(stream_len, latest)
  /\ init_prompt' = 0
  /\ prompt' = 0
  /\ training' = TRUE
  /\ optimizer' = 0
  /\ scaler' = GradScaler
  /\ found_inf' = FALSE
  /\ pc' = "loop_start"
  /\ enum_idx' = 0
  /\ batch_idx' = 0
  /\ batch_idx_bound' = FALSE
  /\ entropy_diff_bound' = FALSE
  /\ interrupted' = FALSE
  /\ ret' = <<0, 0>>
  /\ opt_steps' = 0
  /\ phases' = <<>>
  /\ iter_stepped' = FALSE
  /\ last_done' = NoneDone
  /\ int_pc' = "none"
  /\ written' = [periodic |-> {}, flush |-> {}]
  /\ UNCHANGED <<pure_vars, outcome, stream_len, use_scaler, disk, meter_vars, offset,
                 optimizer_state, iter_start>>

\* -------------------------------------------------- tpt_train_loop
\* Lines 168-180: take the statistics of the checkpoint or create them, and
\* snapshot the optimizer's state.
LoopStart ==
  /\ pc = "loop_start"
  /\ IF checkpoint.present
     THEN /\ offset' = checkpoint.idx
          /\ cumulative_loss' = checkpoint.stats.cumulative_loss
          /\ top1' = checkpoint.stats.top1
          /\ top5' = checkpoint.stats.top5
          /\ no_tpt_class_acc' = checkpoint.stats.no_tpt_class_acc
          /\ tpt_class_acc' = checkpoint.stats.tpt_class_acc
     ELSE /\ offset' = 0
          /\ cumulative_loss' = AverageMeter
          /\ top1' = AverageMeter
          /\ top5' = AverageMeter
          /\ no_tpt_class_acc' = [c \in Classes |-> AverageMeter]
          /\ tpt_class_acc' = [c \in Classes |-> AverageMeter]
  /\ optimizer_state' = optimizer
  /\ iter_start' = IF checkpoint.present THEN checkpoint.stats ELSE EmptyStats
  /\ pc' = "fetch"
  /\ UNCHANGED <<pure_vars, env_vars, main_vars, net_vars, enum_idx, batch_idx, batch_idx_bound,
                 entropy_diff_bound, interrupted, ret, opt_steps, phases,
                 iter_stepped, last_done, int_pc, written>>

\* Line 184: enumerate(data_loader) yields the next sample and binds batch_idx.
Fetch ==
  /\ pc = "fetch"
  /\ enum_idx < loader_len
  /\ batch_idx' = enum_idx
  /\ batch_idx_bound' = TRUE
  /\ enum_idx' = enum_idx + 1
  /\ phases' = <<"FETCH">>
  /\ iter_start' = Stats
  /\ iter_stepped' = FALSE
  /\ pc' = "add_offset"
  /\ UNCHANGED <<pure_vars, env_vars, main_vars, net_vars, meter_vars, offset, optimizer_state,
                 entropy_diff_bound, interrupted, ret, opt_steps, last_done, int_pc, written>>

\* Line 184: the loader is exhausted, the for loop ends.
Exhausted ==
  /\ pc = "fetch"
  /\ enum_idx >= loader_len
  /\ pc' = "post_loop"
  /\ UNCHANGED <<pure_vars, env_vars, main_vars, net_vars, meter_vars, offset, optimizer_state,
                 enum_idx, batch_idx, batch_idx_bound, entropy_diff_bound,
                 interrupted, ret, hist_vars>>

\* Line 185: batch_idx += offset
AddOffset ==
  /\ pc = "add_offset"
  /\ batch_idx' = batch_idx + offset
  /\ pc' = "reset"
  /\ UNCHANGED <<pure_vars, env_vars, main_vars, net_vars, meter_vars, offset, optimizer_state,
                 enum_idx, batch_idx_bound, entropy_diff_bound, interrupted, ret,
                 hist_vars>>

ResetState_skipped ==
  /\ pc = "reset"
  /\ pc' = "adapt"
  /\ UNCHANGED <<pure_vars, env_vars, main_vars, net_vars, meter_vars, offset, optimizer_state,
                 enum_idx, batch_idx, batch_idx_bound, entropy_diff_bound,
                 interrupted, ret, hist_vars>>

\* Lines 188-190: net.reset(); optimizer.load_state_dict(optimizer_state)
ResetState ==
  /\ pc = "reset"
  /\ prompt' = net_reset(prompt, init_prompt)
  /\ optimizer' = load_state_dict(optimizer, optimizer_state)
  /\ opt_steps' = 0
  /\ phases' = Append(phases, "RESET_STATE")
  /\ pc' = "adapt"
  /\ UNCHANGED <<pure_vars, env_vars, main_vars, init_prompt, training, scaler, found_inf,
                 meter_vars, offset, optimizer_state, enum_idx, batch_idx,
                 batch_idx_bound, entropy_diff_bound, interrupted, ret,
                 iter_start, iter_stepped, last_done, int_pc, written>>

\* tta_net_train, lines 129-150/154: forward pass, entropy filter, loss,
\* zero_grad and backward.  On the scaler path the scaled gradients may hold
\* an inf/NaN, which scaler.step will find.
Adapt ==
  /\ pc = "adapt"
  /\ found_inf' \in (IF use_scaler THEN BOOLEAN ELSE {FALSE})
  /\ phases' = Append(phases, "ADAPT")
  /\ pc' = "opt_step"
  /\ UNCHANGED <<pure_vars, env_vars, main_vars, init_prompt, prompt, training, optimizer,
                 scaler, meter_vars, offset, optimizer_state, enum_idx, batch_idx,
                 batch_idx_bound, entropy_diff_bound, interrupted, ret, opt_steps,
                 iter_start, iter_stepped, last_done, int_pc, written>>

\* Number of optimizer.step() calls made by lines 149-155: one without a
\* scaler; scaler.step(optimizer) calls optimizer.step() unless the gradients
\* hold an inf/NaN, in which case the step is skipped.
steps_applied(with_scaler, inf) == IF with_scaler /\ inf THEN 0 ELSE 1

\* tta_net_train, lines 149-155: optimizer.step() or scaler.step(optimizer)
OptStep ==
  /\ pc = "opt_step"
  /\ LET n == steps_applied(use_scaler, found_inf)
     IN /\ prompt' = IF n = 1 THEN optimizer_step(prompt) ELSE prompt
        /\ optimizer' = IF n = 1 THEN optimizer_step(optimizer) ELSE optimizer
        /\ opt_steps' = opt_steps + n
        /\ iter_stepped' = TRUE
  /\ pc' = IF use_scaler THEN "scaler_update" ELSE "reinfer"
  /\ UNCHANGED <<pure_vars, env_vars, main_vars, init_prompt, training, scaler, found_inf,
                 meter_vars, offset, optimizer_state, enum_idx, batch_idx,
                 batch_idx_bound, entropy_diff_bound, interrupted, ret, phases,
                 iter_start, last_done, int_pc, written>>

\* tta_net_train, line 156: scaler.update()
ScalerUpdate ==
  /\ pc = "scaler_update"
  /\ scaler' = scaler_update(scaler, found_inf)
  /\ pc' = "reinfer"
  /\ UNCHANGED <<pure_vars, env_vars, main_vars, init_prompt, prompt, training, optimizer,
                 found_inf, meter_vars, offset, optimizer_state, enum_idx,
                 batch_idx, batch_idx_bound, entropy_diff_bound, interrupted, ret,
                 hist_vars>>

\* The outcome of the sample being processed (its dataset index is
\* from_idx + position in the loader).
Cur == outcome[from_idx + (enum_idx - 1)]

\* Lines 194-202: net.eval() and the forward pass of the canonical view under
\* torch.no_grad(); no optimizer call.
ReInfer ==
  /\ pc = "reinfer"
  /\ training' = FALSE
  /\ phases' = Append(phases, "RE_INFER")
  /\ pc' = "upd_loss"
  /\ UNCHANGED <<pure_vars, env_vars, main_vars, init_prompt, prompt, optimizer, scaler,
                 found_inf, meter_vars, offset, optimizer_state, enum_idx,
                 batch_idx, batch_idx_bound, entropy_diff_bound, interrupted, ret,
                 opt_steps, iter_start, iter_stepped, last_done, int_pc, written>>

\* Line 204: cumulative_loss.update(loss.item())
UpdLoss ==
  /\ pc = "upd_loss"
  /\ cumulative_loss' = update(cumulative_loss, Cur.loss, 1)
  /\ phases' = Append(phases, "UPDATE_STATS")
  /\ pc' = "upd_no_tpt"
  /\ UNCHANGED <<pure_vars, env_vars, main_vars, net_vars, top1, top5, no_tpt_class_acc,
                 tpt_class_acc, offset, optimizer_state, enum_idx, batch_idx,
                 batch_idx_bound, entropy_diff_bound, interrupted, ret, opt_steps,
                 iter_start, iter_stepped, last_done, int_pc, written>>

\* Lines 207-211: no_tpt_class_acc[_key].update(1 or 0)
UpdNoTpt ==
  /\ pc = "upd_no_tpt"
  /\ no_tpt_class_acc' =
       [no_tpt_class_acc EXCEPT ![Cur.label] =
          update(@, IF Cur.no_tpt THEN 1 ELSE 0, 1)]
  /\ pc' = "upd_top1"
  /\ UNCHANGED <<pure_vars, env_vars, main_vars, net_vars, cumulative_loss, top1, top5,
                 tpt_class_acc, offset, optimizer_state, enum_idx, batch_idx,
                 batch_idx_bound, entropy_diff_bound, interrupted, ret, hist_vars>>

\* Lines 214-215 / 217-218: top1.update(1 or 0)
UpdTop1 ==
  /\ pc = "upd_top1"
  /\ top1' = update(top1, IF Cur.top1 THEN 1 ELSE 0, 1)
  /\ pc' = "upd_tpt_class"
  /\ UNCHANGED <<pure_vars, env_vars, main_vars, net_vars, cumulative_loss, top5,
                 no_tpt_class_acc, tpt_class_acc, offset, optimizer_state,
                 enum_idx, batch_idx, batch_idx_bound, entropy_diff_bound,
                 interrupted, ret, hist_vars>>

\* Lines 216 / 219: tpt_class_acc[_key].update(1 or 0)
UpdTptClass ==
  /\ pc = "upd_tpt_class"
  /\ tpt_class_acc' =
       [tpt_class_acc EXCEPT ![Cur.label] = update(@, IF Cur.top1 THEN 1 ELSE 0, 1)]
  /\ pc' = "upd_top5"
  /\ UNCHANGED <<pure_vars, env_vars, main_vars, net_vars, cumulative_loss, top1, top5,
                 no_tpt_class_acc, offset, optimizer_state, enum_idx, batch_idx,
                 batch_idx_bound, entropy_diff_bound, interrupted, ret, hist_vars>>

\* Lines 221-224: top5.update(1 or 0)
UpdTop5 ==
  /\ pc = "upd_top5"
  /\ top5' = update(top5, IF Cur.top5 THEN 1 ELSE 0, 1)
  /\ pc' = "log"
  /\ UNCHANGED <<pure_vars, env_vars, main_vars, net_vars, cumulative_loss, top1,
                 no_tpt_class_acc, tpt_class_acc, offset, optimizer_state,
                 enum_idx, batch_idx, batch_idx_bound, entropy_diff_bound,
                 interrupted, ret, hist_vars>>

\* Lines 231-237: loss_diff and entropy_diff are assigned, scalars are logged.
Log ==
  /\ pc = "log"
  /\ entropy_diff_bound' = TRUE
  /\ pc' = "periodic"
  /\ UNCHANGED <<pure_vars, env_vars, main_vars, net_vars, meter_vars, offset, optimizer_state,
                 enum_idx, batch_idx, batch_idx_bound, interrupted, ret, hist_vars>>

\* Line 239: batch_idx % LOG_FREQUENCY == 0
periodic_due(idx) == idx % LOG_FREQUENCY = 0

\* Lines 239-248: the periodic report and checkpoint.
Periodic ==
  /\ pc = "periodic"
  /\ IF periodic_due(batch_idx)
     THEN /\ disk' = dump(disk, batch_idx, Stats)
          /\ phases' = Append(phases, "PERIODIC")
          /\ written' = [written EXCEPT !.periodic = @ \cup {batch_idx}]
     ELSE UNCHANGED <<disk, phases, written>>
  /\ pc' = "next"
  /\ UNCHANGED <<pure_vars, outcome, stream_len, use_scaler, run, main_vars, net_vars,
                 meter_vars, offset, optimizer_state, enum_idx, batch_idx,
                 batch_idx_bound, entropy_diff_bound, interrupted, ret, opt_steps,
                 iter_start, iter_stepped, last_done, int_pc>>

\* Lines 251-252: the progress bar advances; the iteration is over.
NextSample ==
  /\ pc = "next"
  /\ phases' = Append(phases, "NEXT")
  /\ last_done' = [some |-> TRUE, idx |-> batch_idx, stats |-> Stats]
  /\ pc' = "fetch"
  /\ UNCHANGED <<pure_vars, env_vars, main_vars, net_vars, meter_vars, offset, optimizer_state,
                 enum_idx, batch_idx, batch_idx_bound, entropy_diff_bound,
                 interrupted, ret, opt_steps, iter_start, iter_stepped, int_pc, written>>

\* The statements of the try block (lines 182-252).
TryPcs == {"fetch", "add_offset", "reset", "adapt", "opt_step", "scaler_update",
           "reinfer", "upd_loss", "upd_no_tpt", "upd_top1", "upd_tpt_class",
           "upd_top5", "log", "periodic", "next"}

\* Lines 254-255: a KeyboardInterrupt raised anywhere in the try block is
\* caught, and control goes to the code after the loop.
Interrupt ==
  /\ pc \in TryPcs
  /\ interrupted' = TRUE
  /\ int_pc' = pc
  /\ pc' = "post_loop"
  /\ UNCHANGED <<pure_vars, env_vars, main_vars, net_vars, meter_vars, offset, optimizer_state,
                 enum_idx, batch_idx, batch_idx_bound, entropy_diff_bound, ret,
                 opt_steps, phases, iter_start, iter_stepped, last_done, written>>

final_flush_never(idx, len, off) == FALSE

final_flush_at_last(idx, len, off) == idx % LOG_FREQUENCY # 0 \/ idx = len + off - 1

\* Line 256: batch_idx % LOG_FREQUENCY != 0 or batch_idx == len(data_loader) + offset
final_flush_due(idx, len, off) == idx % LOG_FREQUENCY # 0 \/ idx = len + off

\* Lines 256-274: the final report and checkpoint, and the return.  Reading
\* batch_idx (line 256) or entropy_diff (line 257) before any assignment
\* raises UnboundLocalError.
PostLoop ==
  /\ pc = "post_loop"
  /\ IF ~batch_idx_bound
     THEN /\ pc' = "crashed"
          /\ UNCHANGED <<disk, ret, written>>
     ELSE IF final_flush_due(batch_idx, loader_len, offset)
          THEN IF ~entropy_diff_bound
               THEN /\ pc' = "crashed"
                    /\ UNCHANGED <<disk, ret, written>>
               ELSE /\ disk' = dump(disk, batch_idx, Stats)
                    /\ written' = [written EXCEPT !.flush = @ \cup {batch_idx}]
                    /\ ret' = <<get_avg(cumulative_loss), get_avg(top1)>>
                    /\ pc' = "returned"
          ELSE /\ ret' = <<get_avg(cumulative_loss), get_avg(top1)>>
               /\ pc' = "returned"
               /\ UNCHANGED <<disk, written>>
  /\ UNCHANGED <<pure_vars, outcome, stream_len, use_scaler, run, main_vars, net_vars,
                 meter_vars, offset, optimizer_state, enum_idx, batch_idx,
                 batch_idx_bound, entropy_diff_bound, interrupted, opt_steps, phases,
                 iter_start, iter_stepped, last_done, int_pc>>

Next ==
  \/ Main
  \/ LoopStart
  \/ Fetch
  \/ Exhausted
  \/ AddOffset
  \/ ResetState
  \/ Adapt
  \/ OptStep
  \/ ScalerUpdate
  \/ ReInfer
  \/ UpdLoss
  \/ UpdNoTpt
  \/ UpdTop1
  \/ UpdTptClass
  \/ UpdTop5
  \/ Log
  \/ Periodic
  \/ NextSample
  \/ Interrupt
  \/ PostLoop

Spec == Init /\ [][Next]_vars

TypeOK ==
  /\ pc \in TryPcs \cup {"start", "loop_start", "post_loop", "returned", "crashed"}
  /\ run \in 0 .. MaxRuns
  /\ DOMAIN disk \subseteq Indices
  /\ batch_idx \in 0 .. (2 * MaxSamples)

\* ------------------------------------------------------------- helpers
\* All five updates of one sample (lines 204-224), in the order of the code.
UpdateStats(st, o) ==
  [cumulative_loss |-> update(st.cumulative_loss, o.loss, 1),
   top1 |-> update(st.top1, IF o.top1 THEN 1 ELSE 0, 1),
   top5 |-> update(st.top5, IF o.top5 THEN 1 ELSE 0, 1),
   no_tpt_class_acc |-> [st.no_tpt_class_acc EXCEPT ![o.label] =
                           update(@, IF o.no_tpt THEN 1 ELSE 0, 1)],
   tpt_class_acc |-> [st.tpt_class_acc EXCEPT ![o.label] =
                        update(@, IF o.top1 THEN 1 ELSE 0, 1)]]

\* The statistics of a run without checkpoint and without interrupt once it
\* has processed the samples 0 .. j.
RECURSIVE Uninterrupted(_)
Uninterrupted(j) ==
  IF j < 0 THEN EmptyStats ELSE UpdateStats(Uninterrupted(j - 1), outcome[j])

\* The statements of an iteration that follow the call of tta_net_train.
AfterAdaptPcs == {"reinfer", "upd_loss", "upd_no_tpt", "upd_top1", "upd_tpt_class",
                  "upd_top5", "log", "periodic", "next"}

\* The statements of an iteration that follow the last meter update.
AfterStatsPcs == {"log", "periodic", "next"}

\* The statements at which batch_idx holds the number of the sample.
NumberedPcs == TryPcs \ {"fetch", "add_offset"}

IsPrefix(a, b) ==
  /\ Len(a) <= Len(b)
  /\ \A i \in 1 .. Len(a) : a[i] = b[i]

\* The phases of the iteration of sample idx, in the order of section 4.5.
PhaseOrder(idx) ==
  <<"FETCH", "RESET_STATE", "ADAPT", "RE_INFER", "UPDATE_STATS">>
    \o (IF idx % LOG_FREQUENCY = 0 THEN <<"PERIODIC">> ELSE <<>>)
    \o <<"NEXT">>

\* --------------------------------------------------- filter_on_entropy
\* The percentiles a call is examined with; 10 is the default and the value
\* tta_net_train passes.
Percentiles == {1, 10, 50, 100}

RemoveAt(s, i) == SubSeq(s, 1, i - 1) \o SubSeq(s, i + 1, Len(s))

\* Ascending sort, as np.percentile orders its data.
RECURSIVE SortAsc(_)
SortAsc(s) ==
  IF s = <<>> THEN <<>>
  ELSE LET i == CHOOSE k \in 1 .. Len(s) : \A j \in 1 .. Len(s) : s[k] <= s[j]
       IN <<s[i]>> \o SortAsc(RemoveAt(s, i))

\* np.percentile(values, q) with its default linear interpolation, times 100:
\* the virtual index is q/100 * (n-1), the result interpolates between the
\* two neighbouring order statistics.
percentile100(values, q) ==
  LET n == Len(values)
      sorted == SortAsc(values)
      pos == q * (n - 1)
      lo == pos \div 100
      hi == IF lo + 1 > n - 1 THEN n - 1 ELSE lo + 1
      g == pos % 100
  IN 100 * sorted[lo + 1] + g * (sorted[hi + 1] - sorted[lo + 1])

keeps_strict(val, threshold100) == 100 * val < threshold100

\* Line 293: 0 if val > p_threshold else 1
keeps(val, threshold100) == ~(100 * val > threshold100)

\* Lines 293-294: the 0-based indices of the views that are kept, ascending
\* (torch.nonzero).
kept_indices(ent, threshold100) ==
  LET all == [i \in 1 .. Len(ent) |-> i - 1]
      Test(i) == keeps(ent[i + 1], threshold100)
  IN SelectSeq(all, Test)

InSeq(x, s) == \E k \in 1 .. Len(s) : s[k] = x

\* Lines 296-297: torch.cat((torch.tensor([0]), indices)) is evaluated and its
\* value dropped; indices is what it was.
with_original(indices, return_original) ==
  LET cat == IF return_original /\ ~InSeq(0, indices)
             THEN <<0>> \o indices ELSE indices
  IN indices

\* tensor[indices] on a batch whose rows are numbered from 0
index_select(rows, indices) == [k \in 1 .. Len(indices) |-> rows[indices[k] + 1]]

\* The calls examined: 1..MaxViews views, each view's output stands for its
\* entropy, each input for the number of its image.
FilterInputs ==
  { [pc |-> "called", ent |-> e, p |-> q, return_original |-> b,
     indices |-> <<>>, inputs |-> <<>>, outputs |-> <<>>] :
      e \in UNION { [1 .. n -> 0 .. MaxEntropy] : n \in 1 .. MaxViews },
      q \in Percentiles, b \in BOOLEAN }

\* filter_on_entropy(inputs, outputs, p_percentile, return_original)
FilterOnEntropy ==
  /\ flt.pc = "called"
  /\ LET p_threshold == percentile100(flt.ent, flt.p)
         indices == with_original(kept_indices(flt.ent, p_threshold),
                                  flt.return_original)
     IN flt' = [flt EXCEPT !.pc = "returned",
                           !.indices = indices,
                           !.inputs = index_select([i \in 1 .. Len(flt.ent) |-> i - 1],
                                                   indices),
                           !.outputs = index_select(flt.ent, indices)]
  /\ UNCHANGED <<env_vars, main_vars, net_vars, meter_vars, loop_vars, hist_vars,
                 mtr, twin>>

FilterInit ==
  /\ LoopIdle
  /\ flt \in FilterInputs
  /\ mtr = MeterIdle
  /\ twin = TwinIdle

FilterNext == FilterOnEntropy

SpecFilter == FilterInit /\ [][FilterNext]_vars

\* ------------------------------------------- a stand-alone AverageMeter
\* meter = AverageMeter()
MeterInit ==
  /\ LoopIdle
  /\ flt = FilterIdle
  /\ mtr = [pc |-> "live", meter |-> AverageMeter, obs |-> <<>>]
  /\ twin = TwinIdle

\* meter.update(v, n) with n >= 1
MeterUpdate ==
  /\ mtr.pc = "live"
  /\ Len(mtr.obs) < MaxObs
  /\ \E v \in 0 .. MaxVal, n \in 1 .. MaxWeight :
       mtr' = [mtr EXCEPT !.meter = update(@, v, n),
                          !.obs = Append(@, <<v, n>>)]
  /\ UNCHANGED <<env_vars, main_vars, net_vars, meter_vars, loop_vars, hist_vars,
                 flt, twin>>

\* meter.reset()
MeterReset ==
  /\ mtr.pc = "live"
  /\ mtr' = [mtr EXCEPT !.meter = reset(@), !.obs = <<>>]
  /\ UNCHANGED <<env_vars, main_vars, net_vars, meter_vars, loop_vars, hist_vars,
                 flt, twin>>

MeterNext ==
  \/ MeterUpdate
  \/ MeterReset

SpecMeter == MeterInit /\ [][MeterNext]_vars

\* ------------------------------------- one sample, run with two labels
\* The values computed from a sample are kept as terms [f |-> name, ...] over
\* what they are computed from, so that two values are equal exactly when
\* they are computed the same way from the same data.

tta_net_train_supervised(batch, prompt_state, opt_state, captioner) ==
  LET outputs == batch.inputs
      indices == with_original(kept_indices(outputs, percentile100(outputs, 10)), FALSE)
      filtered_outputs == index_select(outputs, indices)
      loss == [f |-> "cross_entropy", of |-> filtered_outputs, targets |-> batch.targets]
      grad == [f |-> "backward", of |-> loss, wrt |-> prompt_state]
  IN [loss |-> loss,
      prediction |-> [f |-> "argmax_mean", of |-> filtered_outputs],
      prediction_entropy |-> [f |-> "entropy_mean", of |-> filtered_outputs],
      prompt |-> [f |-> "step", from |-> prompt_state, grad |-> grad],
      optimizer |-> [f |-> "step", from |-> opt_state, grad |-> grad]]

\* tta_net_train: the views' outputs under the current prompt (each stands
\* for its entropy), the entropy filter at p = 10, the optional caption
\* ensemble, the averaged prediction, the marginal-entropy loss and one
\* optimizer step.  targets is moved to the device and handed to the report
\* functions only.
tta_net_train(batch, prompt_state, opt_state, captioner) ==
  LET outputs == batch.inputs
      indices == with_original(kept_indices(outputs, percentile100(outputs, 10)), FALSE)
      filtered_inputs == index_select([i \in 1 .. Len(outputs) |-> i - 1], indices)
      filtered_outputs ==
        IF captioner
        THEN [f |-> "add_caption_loss", images |-> filtered_inputs,
              of |-> index_select(outputs, indices)]
        ELSE [f |-> "image", images |-> filtered_inputs,
              of |-> index_select(outputs, indices)]
      loss == [f |-> "avg_entropy", of |-> filtered_outputs]
      grad == [f |-> "backward", of |-> loss, wrt |-> prompt_state]
  IN [loss |-> loss,
      prediction |-> [f |-> "argmax_mean", of |-> filtered_outputs],
      prediction_entropy |-> [f |-> "entropy_mean", of |-> filtered_outputs],
      prompt |-> [f |-> "step", from |-> prompt_state, grad |-> grad],
      optimizer |-> [f |-> "step", from |-> opt_state, grad |-> grad]]

\* Lines 197-202: the canonical view through the adapted network, the
\* evaluation loss against the label, the adapted prediction.
re_infer(batch, prompt_state) ==
  LET outputs == [f |-> "forward", view |-> 0, of |-> batch.inputs[1],
                  prompt |-> prompt_state]
  IN [outputs |-> outputs,
      loss |-> [f |-> "cost_function", of |-> outputs, targets |-> batch.targets],
      prediction |-> [f |-> "argmax", of |-> outputs]]

\* Lines 204-224: what the sample adds to the statistics, given the classes
\* the two predictions and the top-5 stand for.
stats_delta(batch, eval_loss, no_tpt_class, tpt_class, topk) ==
  [cumulative_loss |-> eval_loss,
   key |-> batch.targets,
   no_tpt |-> IF no_tpt_class = batch.targets THEN 1 ELSE 0,
   top1 |-> IF tpt_class = batch.targets THEN 1 ELSE 0,
   top5 |-> IF batch.targets \in topk THEN 1 ELSE 0]

Twins == {1, 2}

\* A sample (its views), two labels, whether the caption ensemble is on, and
\* the classes that the averaged prediction, the adapted prediction and the
\* adapted top-5 turn out to be (the top-5 always holds the prediction).
TwinInputs(e, l, cap, a, b, k) ==
  [pc |-> "fetched", views |-> e, labels |-> l, captioner |-> cap,
   no_tpt_class |-> a, tpt_class |-> b, topk |-> k,
   adapted |-> <<>>, inferred |-> <<>>, delta |-> <<>>]

TwinBatch(t) == [batch_idx |-> 0, inputs |-> twin.views, targets |-> twin.labels[t]]

TwinInit ==
  /\ LoopIdle
  /\ flt = FilterIdle
  /\ mtr = MeterIdle
  /\ \E e \in UNION { [1 .. n -> 0 .. MaxEntropy] : n \in 1 .. MaxViews },
        l \in [Twins -> Classes], cap \in BOOLEAN,
        a \in Classes, b \in Classes :
       \E k \in {{b}, Classes} : twin = TwinInputs(e, l, cap, a, b, k)

\* RESET_STATE and ADAPT of both executions, from the same snapshot.
TwinAdapt ==
  /\ twin.pc = "fetched"
  /\ twin' = [twin EXCEPT
       !.pc = "adapted",
       !.adapted = [t \in Twins |->
                      tta_net_train(TwinBatch(t), [f |-> "snapshot"],
                                    [f |-> "snapshot"], twin.captioner)]]
  /\ UNCHANGED <<env_vars, main_vars, net_vars, meter_vars, loop_vars, hist_vars,
                 flt, mtr>>

\* RE-INFER of both executions, each with its own adapted prompt.
TwinReInfer ==
  /\ twin.pc = "adapted"
  /\ twin' = [twin EXCEPT
       !.pc = "inferred",
       !.inferred = [t \in Twins |-> re_infer(TwinBatch(t), twin.adapted[t].prompt)]]
  /\ UNCHANGED <<env_vars, main_vars, net_vars, meter_vars, loop_vars, hist_vars,
                 flt, mtr>>

\* UPDATE_STATS of both executions.
TwinUpdateStats ==
  /\ twin.pc = "inferred"
  /\ twin' = [twin EXCEPT
       !.pc = "counted",
       !.delta = [t \in Twins |->
                    stats_delta(TwinBatch(t), twin.inferred[t].loss,
                                twin.no_tpt_class, twin.tpt_class, twin.topk)]]
  /\ UNCHANGED <<env_vars, main_vars, net_vars, meter_vars, loop_vars, hist_vars,
                 flt, mtr>>

TwinNext ==
  \/ TwinAdapt
  \/ TwinReInfer
  \/ TwinUpdateStats

SpecTwin == TwinInit /\ [][TwinNext]_vars

\* --------------------------------------------------------------- claims

\* C1: whenever tta_net_train begins (first sample, later samples, fresh or
\* resumed run), the prompt equals the prompt learner's initial snapshot and
\* the optimizer's state equals the snapshot taken at loop start, and no
\* optimizer step has been applied since the reset.
C1_AdaptStartsFromSnapshot ==
  pc = "adapt" =>
    /\ prompt = init_prompt
    /\ optimizer = optimizer_state
    /\ opt_steps = 0

\* C1 witness: ADAPT is about to begin in a resumed run in which an earlier
\* sample has already been adapted.
C1_Witness ==
  /\ pc = "adapt"
  /\ checkpoint.present
  /\ last_done.some
  /\ iter_stepped = FALSE

\* C2: in a run started from a checkpoint of index k, every sample the loop
\* processes is numbered above k (the first one k+1).
C2_ResumeStartsAfterCheckpoint ==
  (checkpoint.present /\ pc \in NumberedPcs) =>
    /\ batch_idx > checkpoint.idx
    /\ (enum_idx = 1 => batch_idx = checkpoint.idx + 1)

\* C3: in a run resumed from a checkpoint that holds the statistics of the
\* samples 0..k, once a later sample j has been counted the statistics are
\* those of an uninterrupted run at j.
C3_CheckpointRoundTrip ==
  ( /\ checkpoint.present
    /\ checkpoint.stats = Uninterrupted(checkpoint.idx)
    /\ pc \in AfterStatsPcs
    /\ batch_idx > checkpoint.idx )
  => Stats = Uninterrupted(batch_idx)

\* C4: after an interrupt of the sample loop over a non-empty stream the
\* function never ends with an exception.
C4_InterruptNeverCrashes == (interrupted /\ loader_len > 0) => pc # "crashed"

\* C5: when the function has returned after an interrupt, the checkpoint with
\* the largest index is the one of the last sample that ran to its end, and
\* it holds the statistics as they were at the end of that sample.
C5_InterruptKeepsProgress ==
  (interrupted /\ pc = "returned" /\ last_done.some) =>
    /\ last_done.idx \in DOMAIN disk
    /\ Max(DOMAIN disk) = last_done.idx
    /\ disk[last_done.idx] = last_done.stats

\* C6: after an interrupt, the iteration that was under way has either
\* changed no meter and made no optimizer step, or has made its optimizer
\* step and grown all five meter counts by one.
C6_InterruptAllOrNothing ==
  interrupted =>
    LET before == CountsOf(iter_start)
        now == CountsOf(Stats)
        grown(k) == now.cumulative_loss = before.cumulative_loss + k
                    /\ now.top1 = before.top1 + k
                    /\ now.top5 = before.top5 + k
                    /\ now.no_tpt = before.no_tpt + k
                    /\ now.tpt = before.tpt + k
    IN \/ (grown(0) /\ ~iter_stepped)
       \/ (grown(1) /\ iter_stepped)

\* C7: the phases of every iteration run in the order FETCH, RESET_STATE,
\* ADAPT, RE_INFER, UPDATE_STATS, [PERIODIC], NEXT: what has run so far is a
\* prefix of that order, ADAPT begins only after RESET_STATE, the updates
\* begin only after RE_INFER, and an iteration that reaches its end has run
\* every phase once.
C7_PhaseOrder ==
  /\ (pc \in NumberedPcs \/ (pc = "fetch" /\ phases # <<>>))
       => IsPrefix(phases, PhaseOrder(batch_idx))
  /\ pc = "reset" => phases = <<"FETCH">>
  /\ pc = "adapt" => phases = <<"FETCH", "RESET_STATE">>
  /\ pc \in {"opt_step", "scaler_update", "reinfer"}
       => phases = <<"FETCH", "RESET_STATE", "ADAPT">>
  /\ pc = "upd_loss" => phases = <<"FETCH", "RESET_STATE", "ADAPT", "RE_INFER">>
  /\ pc \in {"upd_no_tpt", "upd_top1", "upd_tpt_class", "upd_top5", "log", "periodic"}
       => phases = <<"FETCH", "RESET_STATE", "ADAPT", "RE_INFER", "UPDATE_STATS">>
  /\ (pc = "fetch" /\ phases # <<>>) => phases = PhaseOrder(batch_idx)

\* C7 witness: the second iteration of a run is about to adapt, after a first
\* iteration that ran a periodic report.
C7_Witness ==
  /\ pc = "adapt"
  /\ enum_idx = 2
  /\ last_done.some
  /\ last_done.idx % LOG_FREQUENCY = 0

\* C8 (as claimed): after tta_net_train and until the next reset exactly one
\* optimizer step has been applied since the last RESET_STATE.
C8_ExactlyOneStep ==
  pc \in AfterAdaptPcs => opt_steps = 1

\* C8 (amended): after tta_net_train and until the next reset at most one
\* optimizer step has been applied since the last RESET_STATE; exactly one
\* without a scaler and with a scaler whose scaled gradients are finite, none
\* when scaler.step finds an inf/NaN; RE-INFER and UPDATE_STATS apply none,
\* the adaptable state stays the snapshot plus the steps of tta_net_train.
C8_AtMostOneStep ==
  pc \in AfterAdaptPcs =>
    /\ opt_steps \in {0, 1}
    /\ (~use_scaler \/ ~found_inf) => opt_steps = 1
    /\ (use_scaler /\ found_inf) => opt_steps = 0
    /\ prompt = init_prompt + opt_steps
    /\ optimizer = optimizer_state + opt_steps

\* C8 witness: the second iteration of a run on the scaler path has applied
\* its step and finished its updates.
C8_Witness ==
  /\ pc = "next"
  /\ use_scaler
  /\ enum_idx = 2
  /\ opt_steps = 1

\* C9: once an iteration has made its updates, the counts of cumulative
\* loss, top-1 and top-5 have each grown by one, the two per-class meters of
\* the sample's class have grown by one and those of every other class are
\* unchanged; in a run without checkpoint the three global counts and the two
\* per-class totals equal the number of samples taken from the loader.
C9_OncePerSample ==
  pc \in AfterStatsPcs =>
    /\ cumulative_loss.count = iter_start.cumulative_loss.count + 1
    /\ top1.count = iter_start.top1.count + 1
    /\ top5.count = iter_start.top5.count + 1
    /\ \A c \in Classes :
         LET d == IF c = Cur.label THEN 1 ELSE 0
         IN /\ no_tpt_class_acc[c].count = iter_start.no_tpt_class_acc[c].count + d
            /\ tpt_class_acc[c].count = iter_start.tpt_class_acc[c].count + d
    /\ ~checkpoint.present =>
         /\ cumulative_loss.count = enum_idx
         /\ top1.count = enum_idx
         /\ top5.count = enum_idx
         /\ SumCounts(no_tpt_class_acc, Classes) = enum_idx
         /\ SumCounts(tpt_class_acc, Classes) = enum_idx

\* C9 witness: a fresh run has counted its second sample, of class 1.
C9_Witness ==
  /\ pc = "next"
  /\ ~checkpoint.present
  /\ enum_idx = 2
  /\ Cur.label = 1

\* C10: after the periodic step of an index that is a multiple of
\* LOG_FREQUENCY the checkpoint of that index holds the current statistics;
\* and when the function returns after exhausting a stream of at least one
\* sample, the checkpoint of the last processed index exists and holds the
\* final statistics.
C10_CheckpointCadence ==
  /\ (pc = "next" /\ periodic_due(batch_idx)) =>
       (batch_idx \in DOMAIN disk /\ disk[batch_idx] = Stats)
  /\ (pc \in {"post_loop", "returned"} /\ ~interrupted /\ batch_idx_bound) =>
       (last_done.some /\ last_done.idx = batch_idx
        /\ batch_idx = offset + loader_len - 1)
  /\ (pc = "returned" /\ ~interrupted /\ batch_idx_bound) =>
       (batch_idx \in DOMAIN disk /\ disk[batch_idx] = Stats)

\* C10 witness: a resumed run has exhausted its stream at an index that is
\* not a multiple of LOG_FREQUENCY and has returned.
C10_Witness ==
  /\ pc = "returned"
  /\ ~interrupted
  /\ checkpoint.present
  /\ batch_idx_bound
  /\ ~periodic_due(batch_idx)

\* C15 (as claimed): on an exact boundary match, that is when the loop ends at
\* an index that is a multiple of LOG_FREQUENCY, the checkpoint of that index
\* is written by the periodic step and again by the final flush.
C15_DoubleReportOnBoundary ==
  (pc = "returned" /\ ~interrupted /\ batch_idx_bound /\ periodic_due(batch_idx)) =>
    (batch_idx \in written.periodic /\ batch_idx \in written.flush)

\* C15 (amended): no run writes the checkpoint of one index both in its
\* periodic step and in its final flush: after the loop batch_idx is at most
\* len(data_loader) + offset - 1, so the second disjunct of line 256 is never
\* true and the flush runs only for indices the periodic step skipped.
C15_NoDoubleReport ==
  /\ written.periodic \cap written.flush = {}
  /\ \A i \in written.flush : ~periodic_due(i)
  /\ (pc \in {"post_loop", "returned"} /\ batch_idx_bound) =>
       batch_idx < loader_len + offset

\* C15 witness: a run has exhausted its stream at a multiple of
\* LOG_FREQUENCY and returned; the periodic step wrote that index, the final
\* flush wrote nothing.
C15_Witness ==
  /\ pc = "returned"
  /\ ~interrupted
  /\ batch_idx_bound
  /\ batch_idx = offset + loader_len - 1
  /\ periodic_due(batch_idx)
  /\ batch_idx \in written.periodic
  /\ written.flush = {}

\* C16: when the loader yields no sample and no interrupt arrives, the
\* function ends by returning the averages of its statistics, not by an
\* exception.
C16_EmptyStreamReturns ==
  (pc \in {"returned", "crashed"} /\ loader_len = 0 /\ ~interrupted) =>
    (pc = "returned" /\ ret = <<get_avg(cumulative_loss), get_avg(top1)>>)

\* C17: whenever tta_net_train begins, the network's train/eval mode and the
\* gradient scaler's state are what they were when it began for the first
\* sample of the run (training mode, freshly built scaler).
C17_NoCarryOver ==
  pc = "adapt" => (training = TRUE /\ scaler = GradScaler)

\* The smallest and the largest entropy of the batch of the call.
MinEnt(e) == CHOOSE x \in {e[i] : i \in 1 .. Len(e)} : \A i \in 1 .. Len(e) : x <= e[i]
MaxEnt(e) == CHOOSE x \in {e[i] : i \in 1 .. Len(e)} : \A i \in 1 .. Len(e) : x >= e[i]

\* C11: a call of filter_on_entropy on N >= 1 views with p in (0, 100] keeps
\* at least one view; a view is kept exactly when its entropy is at most the
\* p-th percentile of the batch's entropies (which lies between the smallest
\* and the largest entropy, so the views of smallest entropy are always kept
\* and a batch of equal entropies is kept whole); inputs and outputs come
\* back selected by the same ascending indices.
C11_FilterKeepsConfident ==
  flt.pc = "returned" =>
    LET thr == percentile100(flt.ent, flt.p)
        n == Len(flt.ent)
    IN /\ Len(flt.indices) >= 1
       /\ 100 * MinEnt(flt.ent) <= thr
       /\ thr <= 100 * MaxEnt(flt.ent)
       /\ flt.p = 100 => thr = 100 * MaxEnt(flt.ent)
       /\ \A k \in 1 .. Len(flt.outputs) : 100 * flt.outputs[k] <= thr
       /\ \A i \in 1 .. n : (100 * flt.ent[i] <= thr) => InSeq(i - 1, flt.inputs)
       /\ \A i \in 1 .. n : flt.ent[i] = MinEnt(flt.ent) => InSeq(i - 1, flt.inputs)
       /\ (MinEnt(flt.ent) = MaxEnt(flt.ent)) => Len(flt.indices) = n
       /\ Len(flt.inputs) = Len(flt.indices)
       /\ Len(flt.outputs) = Len(flt.indices)
       /\ \A k \in 1 .. Len(flt.indices) :
            /\ flt.inputs[k] = flt.indices[k]
            /\ flt.outputs[k] = flt.ent[flt.indices[k] + 1]
            /\ k > 1 => flt.indices[k - 1] < flt.indices[k]

\* C11 witness: a call on three views of equal entropy at p = 10 returned all
\* three.
C11_Witness ==
  /\ flt.pc = "returned"
  /\ flt.p = 10
  /\ Len(flt.ent) = 3
  /\ MinEnt(flt.ent) = MaxEnt(flt.ent)
  /\ Len(flt.indices) = 3

\* C12: a call with return_original=True returns the canonical view, number
\* 0, among its inputs and outputs.
C12_OriginalPreserved ==
  (flt.pc = "returned" /\ flt.return_original) =>
    (InSeq(0, flt.indices) /\ InSeq(0, flt.inputs))

\* Weighted sum and total weight of the observations since the last reset.
RECURSIVE ObsSum(_)
ObsSum(obs) ==
  IF obs = <<>> THEN 0 ELSE obs[1][1] * obs[1][2] + ObsSum(Tail(obs))

RECURSIVE ObsCount(_)
ObsCount(obs) == IF obs = <<>> THEN 0 ELSE obs[1][2] + ObsCount(Tail(obs))

\* C13: for a meter given non-negative values with weights n >= 1, get_avg is
\* -1 exactly when nothing was recorded since construction or the last reset;
\* otherwise the count is positive and get_avg is 100 * sum / count over the
\* updates since then; update(1) then update(0) gives 50.
C13_MeterAverage ==
  mtr.pc = "live" =>
    LET m == mtr.meter
        total == ObsSum(mtr.obs)
        weight == ObsCount(mtr.obs)
    IN /\ (get_avg(m) = -1) <=> (mtr.obs = <<>>)
       /\ (m.count = 0) <=> (mtr.obs = <<>>)
       /\ mtr.obs # <<>> =>
            /\ m.count = weight
            /\ m.sum = total
            /\ m.val = mtr.obs[Len(mtr.obs)][1]
            /\ get_avg(m) * weight <= 100 * total
            /\ 100 * total < (get_avg(m) + 1) * weight
       /\ mtr.obs = << <<1, 1>>, <<0, 1>> >> => get_avg(m) = 50

\* C13 witness: update(1) then update(0), average 50.
C13_Witness ==
  /\ mtr.pc = "live"
  /\ mtr.obs = << <<1, 1>>, <<0, 1>> >>
  /\ get_avg(mtr.meter) = 50

\* C14: for two executions of a sample that differ only in its label, the
\* adaptation loss, the averaged prediction and its entropy, the prompt and
\* the optimizer state after ADAPT, and the outputs and the prediction of
\* RE-INFER are the same; with equal labels the statistics are the same too.
C14_LabelOnlyForEvaluation ==
  /\ twin.pc \in {"adapted", "inferred", "counted"} =>
       /\ twin.adapted[1].loss = twin.adapted[2].loss
       /\ twin.adapted[1].prediction = twin.adapted[2].prediction
       /\ twin.adapted[1].prediction_entropy = twin.adapted[2].prediction_entropy
       /\ twin.adapted[1].prompt = twin.adapted[2].prompt
       /\ twin.adapted[1].optimizer = twin.adapted[2].optimizer
  /\ twin.pc \in {"inferred", "counted"} =>
       /\ twin.inferred[1].outputs = twin.inferred[2].outputs
       /\ twin.inferred[1].prediction = twin.inferred[2].prediction
  /\ (twin.pc = "counted" /\ twin.labels[1] = twin.labels[2]) =>
       twin.delta[1] = twin.delta[2]

\* C14 witness: both executions are through UPDATE_STATS, their labels differ
\* and so do their top-1 hits.
C14_Witness ==
  /\ twin.pc = "counted"
  /\ twin.labels[1] # twin.labels[2]
  /\ twin.delta[1].top1 # twin.delta[2].top1
  /\ twin.delta[1].cumulative_loss # twin.delta[2].cumulative_loss

====
